---- MODULE Spec2Model ----
(***************************************************************************)
(* A model of the two traffic-light scripts of the repository:             *)
(*   traffic_sim.py        Simulation / TrafficLight(green, red) / Car.step *)
(*   traffic_light_sim.py  StreetSimulation / TrafficLight(green, yellow,   *)
(*                         red) / Car.advance                               *)
(* A behaviour runs one of the two scripts (variable program).             *)
(*                                                                         *)
(* Python floats are IEEE-754 doubles.  Every float of the two scripts is  *)
(* non-negative and a multiple of 2^-56 (the unit in the last place of the *)
(* literal 0.1), so a float is modelled exactly as the integer             *)
(* value * 2^56, held in three limbs <<h, m, l>> of 21 bits                *)
(* (h * 2^42 + m * 2^21 + l), and every arithmetic result is rounded to 53 *)
(* significant bits, ties to even, as the hardware does.                   *)
(***************************************************************************)
EXTENDS Integers, Sequences, FiniteSets, TLC

\* ------------------------------------------------------------------ bounds
\* Simulation.update calls modelled (tick is unbounded in the code).
MaxTick == 72
\* StreetSimulation.step calls modelled (time_elapsed is unbounded in the code).
MaxSteps == 312
\* StreetSimulation.spawn_cars may add a car only in the first MaxSpawnStep steps.
MaxSpawnStep == 74
\* Cars on the road at once (the lists are unbounded in the code).
MaxCars == 1

\* -------------------------------------------------- IEEE-754 double arithmetic
Base == 2^21

RECURSIVE BitLen(_)
\* Number of significant bits of a limb.
BitLen(x) == IF x = 0 THEN 0 ELSE 1 + BitLen(x \div 2)

\* The float of a small non-negative integer n (n * 2^56 = n * 2^14 * 2^42).
FromInt(n) == <<n * 2^14, 0, 0>>

Zero == FromInt(0)

Lt(a, b) ==
    \/ a[1] < b[1]
    \/ a[1] = b[1] /\ a[2] < b[2]
    \/ a[1] = b[1] /\ a[2] = b[2] /\ a[3] < b[3]

Le(a, b) == ~Lt(b, a)

FMax(a, b) == IF Lt(a, b) THEN b ELSE a

FMin(a, b) == IF Lt(b, a) THEN b ELSE a

\* Exact sum of two fixed-point numbers, carries propagated.
AddExact(a, b) ==
    LET l == a[3] + b[3]
        m == a[2] + b[2] + (l \div Base)
        h == a[1] + b[1] + (m \div Base)
    IN  <<h, m % Base, l % Base>>

\* Exact difference a - b, for b <= a, borrows propagated.
SubExact(a, b) ==
    LET l == a[3] - b[3]
        bl == IF l < 0 THEN 1 ELSE 0
        m == a[2] - b[2] - bl
        bm == IF m < 0 THEN 1 ELSE 0
        h == a[1] - b[1] - bm
    IN  <<h, m + bm * Base, l + bl * Base>>

\* Exact product of a fixed-point number by a small non-negative integer k.
MulExact(k, a) ==
    LET l == a[3] * k
        m == a[2] * k + (l \div Base)
        h == a[1] * k + (m \div Base)
    IN  <<h, m % Base, l % Base>>

\* Round an exact result to 53 significant bits, ties to even.  The number has
\* 42 + BitLen(h) significant bits, so s = BitLen(h) - 11 low bits are rounded away
\* when that is positive; they all lie in the low limb.
Round53(a) ==
    LET s == BitLen(a[1] \div 2^11)
    IN  IF s = 0 THEN a
        ELSE LET r == a[3] % (2^s)
                 half == 2^(s - 1)
                 odd == (a[3] \div (2^s)) % 2 = 1
                 up == r > half \/ (r = half /\ odd)
                 down == <<a[1], a[2], a[3] - r>>
             IN  IF up THEN AddExact(down, <<0, 0, 2^s>>) ELSE down

\* float + float
FAdd(a, b) == Round53(AddExact(a, b))

\* float - float: the sign and the magnitude of the rounded difference.
FSub(a, b) ==
    IF Lt(a, b) THEN [neg |-> TRUE, mag |-> Round53(SubExact(b, a))]
    ELSE [neg |-> FALSE, mag |-> Round53(SubExact(a, b))]

\* float * float, the first operand an integer-valued float k.
FMul(k, a) == Round53(MulExact(k, a))

RECURSIVE FMod(_, _)
\* float % float for non-negative operands (fmod is exact).
FMod(a, c) == IF Lt(a, c) THEN a ELSE FMod(SubExact(a, c), c)

\* The double of the literal 0.1: 0x1.999999999999ap-4 = 7205759403792794 * 2^-56.
PointOne == <<1638, 838860, 1677722>>

VARIABLES
    program,        \* the script that runs: "traffic_sim" or "traffic_light_sim"
    sim_state,      \* Simulation.__init__: "new" (not called), "raised", "ready"
    call,           \* the arguments of the Simulation(...) call
    sim_attrs,      \* the attributes of the Simulation assigned so far
    road_length,    \* Simulation.road_length
    stop_line,      \* Simulation.stop_line
    tick,           \* Simulation.tick
    cars,           \* Simulation.cars
    light,          \* Simulation.light
    street_cars,    \* StreetSimulation.cars
    time_elapsed,   \* StreetSimulation.time_elapsed
    steps,          \* number of StreetSimulation.step calls made
    before,         \* the car list of the last step after spawning, before moving
    moved,          \* the car list of the last step after moving, before dropping
    run,            \* the light phase of the last steps and how many steps it has lasted
    done_run,       \* the phase run that ended before run started
    watched         \* the birth step of the car singled out for observation, or -1

vars == <<program, sim_state, call, sim_attrs, road_length, stop_line, tick, cars,
          light, street_cars, time_elapsed, steps, before, moved, run, done_run,
          watched>>

sim_vars == <<sim_state, call, sim_attrs, road_length, stop_line, tick, cars, light>>

street_vars == <<street_cars, time_elapsed, steps, run, done_run, watched>>

\* ------------------------------------------------------ traffic_sim.py
\* Simulation.__init__ defaults: car_speed 20.0 and time_step 0.1.
car_speed == 20

time_step == PointOne

\* TrafficLight(green_duration=40, red_duration=30) of Simulation.__init__.
sim_green_duration == 40

sim_red_duration == 30

\* Arguments Simulation(road_length, stop_line) is called with (120.0 and 60.0
\* are the defaults).
RoadLengths == {60, 120}

StopLines == {59, 60, 120}

SimAttrs == {"road_length", "stop_line", "car_speed", "spawn_rate", "time_step",
             "tick", "cars", "light"}

\* is_green with the comparison off by one (phase <= green_duration).
is_green_inclusive(l, t) ==
    LET phase_ == t % (l.green_duration + l.red_duration)
    IN  phase_ <= l.green_duration

\* TrafficLight.is_green of traffic_sim.py.
is_green(l, t) ==
    LET phase_ == t % (l.green_duration + l.red_duration)
    IN  phase_ < l.green_duration

\* Car.step of traffic_sim.py: the car's new position.
CarStep(car, l, dt, stop, t) ==
    LET distance_to_stop == FSub(stop, car.position)
    IN  IF distance_to_stop.neg \/ distance_to_stop.mag = Zero
        THEN FAdd(car.position, FMul(car.speed, dt))
        ELSE IF is_green(l, t)
        THEN FAdd(car.position, FMul(car.speed, dt))
        ELSE LET step_distance == FMul(car.speed, dt)
             IN  IF Le(distance_to_stop.mag, step_distance)
                 THEN stop
                 ELSE FAdd(car.position, step_distance)

\* The guard with > for >=: a stop line at the very end of the road is accepted.
StopLineBeyond(stop, road) == Lt(road, stop)

\* The guard of Simulation.__init__: stop_line >= road_length.
StopLineOutside(stop, road) == Le(road, stop)

\* Simulation.__init__(road_length=rl, stop_line=sl).
SimInit(rl, sl) ==
    /\ program = "traffic_sim"
    /\ sim_state = "new"
    /\ call' = [road_length |-> FromInt(rl), stop_line |-> FromInt(sl)]
    /\ IF StopLineOutside(FromInt(sl), FromInt(rl))
       THEN /\ sim_state' = "raised"
            /\ UNCHANGED <<sim_attrs, road_length, stop_line, tick, cars, light>>
       ELSE /\ sim_state' = "ready"
            /\ sim_attrs' = SimAttrs
            /\ road_length' = FromInt(rl)
            /\ stop_line' = FromInt(sl)
            /\ tick' = 0
            /\ cars' = <<>>
            /\ light' = [green_duration |-> sim_green_duration,
                         red_duration |-> sim_red_duration]
    /\ UNCHANGED <<program, street_vars, before, moved>>

\* Simulation.spawn_car: random.random() < spawn_rate decides the arrival.
spawn_car(cs, arrive, t) ==
    IF arrive THEN Append(cs, [position |-> Zero, speed |-> car_speed, born |-> t])
    ELSE cs

\* The filter with < for <=: a car exactly at the end of the road is dropped.
OnRoadStrict(car, road) == Lt(car.position, road)

\* The filter of Simulation.update: a car stays while position <= road_length.
OnRoad(car, road) == Le(car.position, road)

\* Simulation.update.
Update(arrive) ==
    /\ program = "traffic_sim"
    /\ sim_state = "ready"
    /\ tick < MaxTick
    /\ arrive => Len(cars) < MaxCars
    /\ LET spawned == spawn_car(cars, arrive, tick)
           stepped == [i \in 1..Len(spawned) |->
                          [spawned[i] EXCEPT !.position =
                              CarStep(spawned[i], light, time_step, stop_line, tick)]]
       IN  /\ before' = spawned
           /\ moved' = stepped
           /\ cars' = SelectSeq(stepped, LAMBDA c : OnRoad(c, road_length))
    /\ tick' = tick + 1
    /\ UNCHANGED <<program, sim_state, call, sim_attrs, road_length, stop_line, light,
                   street_vars>>

\* ------------------------------------------------ traffic_light_sim.py
\* TrafficLight defaults.
green_duration == 12

yellow_duration == 3

red_duration == 10

\* Car defaults: speed 12.0 meters per second.
speed == 12

\* StreetSimulation defaults.
street_road_length == 120

light_position == 60

\* The buffer Car.advance leaves before the light.
buffer == 2

\* TrafficLight() of main.
DefaultLight == [green_duration |-> FromInt(green_duration),
                 yellow_duration |-> FromInt(yellow_duration),
                 red_duration |-> FromInt(red_duration)]

\* phase without the modulo: the light never returns to green after the first cycle.
phase_no_cycle(l, time) ==
    IF Lt(time, l.green_duration) THEN "green"
    ELSE IF Lt(time, FAdd(l.green_duration, l.yellow_duration)) THEN "yellow"
    ELSE "red"

\* TrafficLight.phase of traffic_light_sim.py.
phase(l, time) ==
    LET cycle == FAdd(FAdd(l.green_duration, l.yellow_duration), l.red_duration)
        position == FMod(time, cycle)
    IN  IF Lt(position, l.green_duration) THEN "green"
        ELSE IF Lt(position, FAdd(l.green_duration, l.yellow_duration)) THEN "yellow"
        ELSE "red"

\* allows_passing that lets cars through on yellow as well.
allows_passing_on_yellow(l, time) == phase(l, time) # "red"

\* TrafficLight.allows_passing.
allows_passing(l, time) == phase(l, time) = "green"

\* Car.advance stopping at the light itself, without the 2 meter buffer.
CarAdvanceNoBuffer(car, dt, light_pos, light_open) ==
    LET movement ==
            IF ~light_open /\ Lt(car.position, light_pos)
            THEN FMin(FSub(light_pos, car.position).mag, FMul(car.speed, dt))
            ELSE FMul(car.speed, dt)
    IN  FAdd(car.position, movement)

\* Car.advance: the car's new position.
CarAdvance(car, dt, light_pos, light_open) ==
    LET movement ==
            IF ~light_open /\ Lt(car.position, light_pos)
            THEN LET stop == FMax(FSub(light_pos, FromInt(buffer)).mag, car.position)
                     distance_to_stop == FSub(stop, car.position).mag
                 IN  FMin(distance_to_stop, FMul(car.speed, dt))
            ELSE FMul(car.speed, dt)
    IN  FAdd(car.position, movement)

\* StreetSimulation.spawn_cars: random.random() < arrival_rate * time_step decides.
spawn_cars(cs, arrive, n) ==
    IF arrive THEN Append(cs, [position |-> Zero, speed |-> speed, born |-> n])
    ELSE cs

\* The filter of StreetSimulation.step: a car stays while position < road_length.
OnStreet(car, road) == Lt(car.position, road)

\* StreetSimulation.step.  An arriving car may be singled out for observation
\* (watch) while no other car is; that changes nothing of the step itself.
StreetStep(arrive, watch) ==
    /\ program = "traffic_light_sim"
    /\ steps < MaxSteps
    /\ arrive => Len(street_cars) < MaxCars /\ steps < MaxSpawnStep
    /\ watch => arrive /\ watched = -1
    /\ LET spawned == spawn_cars(street_cars, arrive, steps)
           light_open == allows_passing(DefaultLight, time_elapsed)
           advanced == [i \in 1..Len(spawned) |->
                           [spawned[i] EXCEPT !.position =
                               CarAdvance(spawned[i], time_step,
                                          FromInt(light_position), light_open)]]
           now == phase(DefaultLight, time_elapsed)
       IN  /\ before' = spawned
           /\ moved' = advanced
           /\ street_cars' =
                  SelectSeq(advanced, LAMBDA c : OnStreet(c, FromInt(street_road_length)))
           /\ watched' =
                  IF watch THEN steps
                  ELSE IF \E i \in 1..Len(advanced) :
                              /\ advanced[i].born = watched
                              /\ OnStreet(advanced[i], FromInt(street_road_length))
                  THEN watched
                  ELSE -1
           /\ IF run.phase = now
              THEN /\ run' = [run EXCEPT !.len = @ + 1]
                   /\ UNCHANGED done_run
              ELSE /\ run' = [phase |-> now, len |-> 1]
                   /\ done_run' = run
    /\ time_elapsed' = FAdd(time_elapsed, time_step)
    /\ steps' = steps + 1
    /\ UNCHANGED <<program, sim_vars>>

\* ------------------------------------------------------- specification
Init ==
    /\ program \in {"traffic_sim", "traffic_light_sim"}
    /\ sim_state = "new"
    /\ call = [road_length |-> Zero, stop_line |-> Zero]
    /\ sim_attrs = {}
    /\ road_length = Zero
    /\ stop_line = Zero
    /\ tick = 0
    /\ cars = <<>>
    /\ light = [green_duration |-> 0, red_duration |-> 0]
    /\ street_cars = <<>>
    /\ time_elapsed = Zero
    /\ steps = 0
    /\ before = <<>>
    /\ moved = <<>>
    /\ run = [phase |-> "none", len |-> 0]
    /\ done_run = [phase |-> "none", len |-> 0]
    /\ watched = -1

Construct == \E rl \in RoadLengths, sl \in StopLines : SimInit(rl, sl)

SimUpdate == \E arrive \in BOOLEAN : Update(arrive)

Step == \E arrive \in BOOLEAN : StreetStep(arrive, FALSE)

Next == Construct \/ SimUpdate \/ Step

Spec == Init /\ [][Next]_vars

\* A StreetSimulation.step as its call counter shows it: under Next the steps that
\* change the counter are exactly the StreetStep steps, and the two are enabled together.
StepTaken ==
    /\ program = "traffic_light_sim"
    /\ steps < MaxSteps
    /\ steps' = steps + 1

\* traffic_light_sim.py alone, any arriving car being the one observed.
LiveInit == Init /\ program = "traffic_light_sim"

WatchedStep == \E arrive \in BOOLEAN, watch \in BOOLEAN : StreetStep(arrive, watch)

LiveNext == WatchedStep

\* The animation loop calls step again and again: it is never starved.
LiveSpec == LiveInit /\ [][LiveNext]_vars /\ WF_steps(StepTaken)

\* ---------------------------------------------------------------- claims
InSim == program = "traffic_sim" /\ sim_state = "ready" /\ tick > 0

InStreet == program = "traffic_light_sim" /\ steps > 0

LightPos == FromInt(light_position)

BufferLine == FSub(LightPos, FromInt(buffer)).mag

\* Steps per second of simulated time: 1 / time_step, time_step being 0.1.
steps_per_second == 10

\* C1: in traffic_sim.py a car at or before stop_line at a tick where the light is
\* not green is not beyond stop_line after Car.step of that tick.
C1_StopsAtRed ==
    InSim =>
        \A i \in 1..Len(before) :
            (Le(before[i].position, stop_line) /\ ~is_green(light, tick - 1))
                => Le(moved[i].position, stop_line)

\* C2: in traffic_light_sim.py a car that was before light_position and is at or
\* beyond it after a step crossed in a step whose phase (at time_elapsed before the
\* step) was green; in a yellow or red step no car crosses.
C2_CrossOnlyOnGreen ==
    InStreet =>
        \A i \in 1..Len(before) :
            (Lt(before[i].position, LightPos) /\ Le(LightPos, moved[i].position))
                => run.phase = "green"

\* A red step in which a car stood still before the light.
C2_Witness ==
    /\ InStreet
    /\ run.phase = "red"
    /\ \E i \in 1..Len(before) :
           /\ Lt(before[i].position, LightPos)
           /\ moved[i].position = before[i].position

\* C3: in traffic_light_sim.py the phase observed at time_elapsed starts green,
\* changes only green -> yellow -> red -> green, and every phase lasts exactly its
\* duration (duration / time_step steps).
C3_PhaseDurations ==
    /\ (program = "traffic_light_sim" /\ steps = 0)
           => phase(DefaultLight, time_elapsed) = "green"
    /\ (InStreet /\ done_run.phase # "none") =>
           /\ <<done_run.phase, run.phase>> \in
                  {<<"green", "yellow">>, <<"yellow", "red">>, <<"red", "green">>}
           /\ done_run.len = steps_per_second *
                  (CASE done_run.phase = "green" -> green_duration
                     [] done_run.phase = "yellow" -> yellow_duration
                     [] done_run.phase = "red" -> red_duration)

\* At the current tick: the light is green at tick 0, a green run that starts here
\* lasts exactly 40 ticks, a red run exactly 30, and the colour repeats after 70.
GreenRedAtTick ==
    (program = "traffic_sim" /\ sim_state = "ready") =>
        LET g == light.green_duration
            r == light.red_duration
            starts == tick = 0 \/ is_green(light, tick) # is_green(light, tick - 1)
        IN  /\ g = 40 /\ r = 30
            /\ is_green(light, 0)
            /\ is_green(light, tick) = is_green(light, tick + 70)
            /\ (starts /\ is_green(light, tick)) =>
                   /\ \A j \in 0..(g - 1) : is_green(light, tick + j)
                   /\ ~is_green(light, tick + g)
            /\ (starts /\ ~is_green(light, tick)) =>
                   /\ \A j \in 0..(r - 1) : ~is_green(light, tick + j)
                   /\ is_green(light, tick + r)

\* C4: in traffic_sim.py tick starts at 0 and grows by exactly 1 per update, and
\* over these ticks is_green is true for exactly green_duration (40) consecutive
\* ticks, then false for exactly red_duration (30), and
\* is_green(tick) = is_green(tick + 70).
C4_GreenRedPeriod ==
    /\ [](sim_state = "new" => tick = 0)
    /\ [][IF program = "traffic_sim" /\ sim_state = "ready"
          THEN tick' = tick + 1
          ELSE tick' = tick]_vars
    /\ []GreenRedAtTick

\* A whole green and a whole red period have been run through.
C4_Witness ==
    /\ program = "traffic_sim"
    /\ sim_state = "ready"
    /\ tick = sim_green_duration + sim_red_duration

C6_StopLineWithinRoad ==
    /\ (sim_state # "new" /\ Le(call.road_length, call.stop_line))
           => (sim_state = "raised" /\ sim_attrs = {})
    /\ sim_state = "raised" => sim_attrs = {}
    /\ sim_state = "ready" =>
           /\ Lt(stop_line, road_length)
           /\ {"tick", "cars", "light"} \subseteq sim_attrs

\* The constructor was called with a stop line at the end of the road and raised.
C6_Witness ==
    /\ sim_state = "raised"
    /\ call.stop_line = call.road_length

\* The cars of cs that are among the cars of kept (a car is known by its birth step).
Survivors(cs, kept) ==
    SelectSeq(cs, LAMBDA c : \E j \in 1..Len(kept) : kept[j].born = c.born)

\* What one step may do to a car list old: append at most one car at position 0
\* (giving before'), move the cars (giving moved'), and drop exactly those beyond
\* the bound, keeping the others in order.
C7_ListStep(old, new, within(_)) ==
    /\ \/ before' = old
       \/ /\ Len(before') = Len(old) + 1
          /\ SubSeq(before', 1, Len(old)) = old
          /\ before'[Len(before')].position = Zero
    /\ Len(moved') = Len(before')
    /\ \A i \in 1..Len(moved') : moved'[i].born = before'[i].born
    /\ new = SelectSeq(moved', within)
    /\ new = Survivors(moved', new)

WatchedOnStreet == \E i \in 1..Len(street_cars) : street_cars[i].born = watched

====
